---- MODULE Spec2Model ----
(***************************************************************************)
(* Model of sdk/rust/src/signing/secp256k1.rs: the hex codec, the WIF      *)
(* decoder, the two key types and the Secp256k1Algorithm operations.       *)
(*                                                                         *)
(* A string is a sequence of one-character strings, a byte an integer in   *)
(* 0..255, a Vec<u8> a sequence of bytes.  A call ends in one of three     *)
(* ways: Ok(value), Err(ParseError | SigningError), or a panic (the Rust   *)
(* runtime aborts the call: an out-of-bounds index or removal).            *)
(*                                                                         *)
(* The three external crates are modelled by their contracts:              *)
(*   rust_base58  - the big-number base-58 decoding, computed exactly;     *)
(*   crypto       - Sha256 as an injective 32-byte digest stand-in;        *)
(*   secp256k1    - the length / range checks exactly (32-byte scalar in   *)
(*                  1..n-1, 33-byte compressed point, 64-byte compact      *)
(*                  signature with r, s < n), the group arithmetic by an   *)
(*                  injective stand-in on which own signatures verify.     *)
(***************************************************************************)
EXTENDS Integers, Sequences, FiniteSets, TLC

VARIABLES algorithm, priv, pub, last

vars == <<algorithm, priv, pub, last>>

(***************************************************************************)
(* Results                                                                 *)
(***************************************************************************)
Ok(v) == [kind |-> "Ok", value |-> v, err |-> "", msg |-> "", pos |-> -1]

ParseError(m, p) == [kind |-> "Err", value |-> <<>>, err |-> "ParseError", msg |-> m, pos |-> p]

\* impl From<secp256k1::Error> for Error: the library error is boxed as the cause
SigningError(cause) == [kind |-> "Err", value |-> <<>>, err |-> "SigningError", msg |-> cause, pos |-> -1]

\* impl From<FromBase58Error> for Error
Base58Error == ParseError("Base58 decoding failed", -1)

\* the call aborted (index out of bounds, removal index out of bounds)
Panic == [kind |-> "Panic", value |-> <<>>, err |-> "", msg |-> "", pos |-> -1]

(***************************************************************************)
(* Hex codec                                                               *)
(***************************************************************************)
LowerHex == <<"0","1","2","3","4","5","6","7","8","9","a","b","c","d","e","f">>

UpperHex == <<"0","1","2","3","4","5","6","7","8","9","A","B","C","D","E","F">>

\* char::is_digit(16): ASCII 0-9, a-f, A-F
is_digit(ch) == \E i \in 1..16 : LowerHex[i] = ch \/ UpperHex[i] = ch

\* char::to_digit(16).unwrap()
to_digit(ch) == (CHOOSE i \in 1..16 : LowerHex[i] = ch \/ UpperHex[i] = ch) - 1

\* format!("{:02x}", b)
format_02x(b) == <<LowerHex[(b \div 16) + 1], LowerHex[(b % 16) + 1]>>

\* mutant: the bytes formatted with "{:02X}"
bytes_to_hex_str_upper(b) ==
    [i \in 1..(2 * Len(b)) |->
        <<UpperHex[(b[(i + 1) \div 2] \div 16) + 1], UpperHex[(b[(i + 1) \div 2] % 16) + 1]>>[((i - 1) % 2) + 1]]

\* b.iter().map(|b| format!("{:02x}", b)).collect::<Vec<_>>().join("")
bytes_to_hex_str(b) ==
    [i \in 1..(2 * Len(b)) |-> format_02x(b[(i + 1) \div 2])[((i - 1) % 2) + 1]]

\* the first loop of hex_str_to_bytes: the 0-based index of the first
\* character that is not a hex digit
FirstInvalid(s) ==
    (CHOOSE i \in 1..Len(s) :
        /\ ~is_digit(s[i])
        /\ \A j \in 1..(i - 1) : is_digit(s[j])) - 1

\* ((chunk[0].to_digit(16).unwrap() << 4) | chunk[1].to_digit(16).unwrap()) as u8
chunk_byte(c0, c1) == ((to_digit(c0) * 16) + to_digit(c1)) % 256

\* mutant: the position counted from 1
hex_str_to_bytes_one_based(s) ==
    IF \E i \in 1..Len(s) : ~is_digit(s[i])
    THEN ParseError("invalid character position", FirstInvalid(s) + 1)
    ELSE IF Len(s) % 2 = 1
         THEN Panic
         ELSE Ok([j \in 1..(Len(s) \div 2) |-> chunk_byte(s[2 * j - 1], s[2 * j])])

hex_str_to_bytes(s) ==
    IF \E i \in 1..Len(s) : ~is_digit(s[i])
    THEN ParseError("invalid character position", FirstInvalid(s))
    ELSE IF Len(s) % 2 = 1
         \* input.chunks(2): the last chunk holds one char, chunk[1] is out of bounds
         THEN Panic
         ELSE Ok([j \in 1..(Len(s) \div 2) |-> chunk_byte(s[2 * j - 1], s[2 * j])])

(***************************************************************************)
(* Key types                                                               *)
(***************************************************************************)
NoKey == [live |-> FALSE, private |-> <<>>]

Key(bytes) == [live |-> TRUE, private |-> bytes]

Secp256k1PrivateKey_from_hex(s) == hex_str_to_bytes(s)

Secp256k1PublicKey_from_hex(s) == hex_str_to_bytes(s)

as_hex(key) == bytes_to_hex_str(key.private)

as_slice(key) == key.private

(***************************************************************************)
(* rust_base58: FromBase58 for str                                         *)
(***************************************************************************)
BTC_ALPHA == <<"1","2","3","4","5","6","7","8","9","A","B","C","D","E","F","G","H","J","K","L","M","N","P","Q","R","S","T","U","V","W","X","Y","Z","a","b","c","d","e","f","g","h","i","j","k","m","n","o","p","q","r","s","t","u","v","w","x","y","z">>

in_alpha(ch) == \E i \in 1..Len(BTC_ALPHA) : BTC_ALPHA[i] = ch

alpha_index(ch) == (CHOOSE i \in 1..Len(BTC_ALPHA) : BTC_ALPHA[i] = ch) - 1

RECURSIVE MulAdd(_, _, _, _)
\* the big-endian number acc * m + carry, in Len(acc) bytes, from byte i up
\* to the first one
MulAdd(acc, m, carry, i) ==
    IF i < 1 \/ i > Len(acc) THEN acc
    ELSE LET v == (acc[i] * m) + carry
         IN MulAdd([acc EXCEPT ![i] = v % 256], m, v \div 256, i - 1)

RECURSIVE BigOfBase58(_, _, _)
\* x = sum of digit * 58^k, as Len(s) big-endian bytes (58 < 256: it fits);
\* acc is x after the characters before the i-th
BigOfBase58(s, i, acc) ==
    IF i > Len(s) \/ Len(acc) < Len(s) THEN acc
    ELSE BigOfBase58(s, i + 1, MulAdd(acc, Len(BTC_ALPHA), alpha_index(s[i]), Len(acc)))

\* BigUint::to_bytes_be of a positive number: no leading zero byte
StripZeros(b) ==
    IF \A i \in 1..Len(b) : b[i] = 0 THEN <<>>
    ELSE SubSeq(b, CHOOSE i \in 1..Len(b) : b[i] # 0 /\ \A j \in 1..(i - 1) : b[j] = 0, Len(b))

\* self.iter().take_while(|&x| *x == BTC_ALPHA[0]): one zero byte per leading '1'
LeadingOnes(s) ==
    IF \A i \in 1..Len(s) : s[i] = BTC_ALPHA[1] THEN Len(s)
    ELSE (CHOOSE i \in 1..Len(s) : s[i] # BTC_ALPHA[1] /\ \A j \in 1..(i - 1) : s[j] = BTC_ALPHA[1]) - 1

from_base58(s) ==
    IF \E i \in 1..Len(s) : ~in_alpha(s[i])
    THEN [kind |-> "Err", value |-> <<>>, err |-> "FromBase58Error", msg |-> "InvalidBase58Byte", pos |-> -1]
    ELSE Ok([i \in 1..LeadingOnes(s) |-> 0]
            \o StripZeros(BigOfBase58(s, 1, [i \in 1..Len(s) |-> 0])))

(***************************************************************************)
(* WIF decoder                                                             *)
(***************************************************************************)
\* Vec::remove(index): panics when index >= len; the index itself is a usize,
\* so len - k below zero overflows (a panic, or a wrapped index that is out
\* of bounds): every build aborts the call
vec_remove(v, index) ==
    IF ~v.ok \/ index < 0 \/ index >= Len(v.vec)
    THEN [ok |-> FALSE, vec |-> <<>>]
    ELSE [ok |-> TRUE, vec |-> SubSeq(v.vec, 1, index) \o SubSeq(v.vec, index + 2, Len(v.vec))]

\* mutant: the version byte is not removed
from_wif_keeps_version(s) ==
    LET d == from_base58(s)
    IN IF d.kind = "Err" THEN Base58Error
       ELSE LET len == Len(d.value)
                b0 == [ok |-> TRUE, vec |-> d.value]
                b1 == vec_remove(b0, len - 1)
                b2 == vec_remove(b1, len - 2)
                b3 == vec_remove(b2, len - 3)
                b4 == vec_remove(b3, len - 4)
            IN IF b4.ok THEN Ok(b4.vec) ELSE Panic

Secp256k1PrivateKey_from_wif(s) ==
    LET d == from_base58(s)
    IN IF d.kind = "Err" THEN Base58Error
       ELSE LET len == Len(d.value)
                b0 == [ok |-> TRUE, vec |-> d.value]
                b1 == vec_remove(b0, len - 1)
                b2 == vec_remove(b1, len - 2)
                b3 == vec_remove(b2, len - 3)
                b4 == vec_remove(b3, len - 4)
                b5 == vec_remove(b4, 0)
            IN IF b5.ok THEN Ok(b5.vec) ELSE Panic

(***************************************************************************)
(* crypto::sha2::Sha256 (external crate).  The compression function is not *)
(* computed: the digest is the message padded to 32 bytes with the 0x80    *)
(* marker, which like SHA-256 is a fixed 32-byte function of the message   *)
(* and is injective on the messages drawn here (shorter than 32 bytes).    *)
(***************************************************************************)
\* let mut hash: &mut [u8] = & mut [0; 32]
HASH_SIZE == 32

Sha256(message) ==
    [i \in 1..HASH_SIZE |->
        IF i <= Len(message) THEN message[i]
        ELSE IF i = Len(message) + 1 THEN 128 ELSE 0]

(***************************************************************************)
(* secp256k1 (external crate)                                              *)
(***************************************************************************)
\* the group order n, big-endian
CURVE_ORDER == <<255,255,255,255,255,255,255,255,255,255,255,255,255,255,255,254,186,174,220,230,175,72,160,59,191,210,94,140,208,54,65,65>>

SECRET_KEY_SIZE == Len(CURVE_ORDER)

MESSAGE_SIZE == Len(CURVE_ORDER)

COMPRESSED_PUBLIC_KEY_SIZE == Len(CURVE_ORDER) + 1

COMPACT_SIGNATURE_SIZE == 2 * Len(CURVE_ORDER)

LibOk(v) == [kind |-> "Ok", value |-> v, err |-> "", msg |-> "", pos |-> -1]

LibErr(e) == [kind |-> "Err", value |-> <<>>, err |-> "secp256k1::Error", msg |-> e, pos |-> -1]

IsZero(a) == \A i \in 1..Len(a) : a[i] = 0

\* a < b for big-endian numbers of one length
BytesLess(a, b) ==
    \E i \in 1..Len(a) : a[i] < b[i] /\ \A j \in 1..(i - 1) : a[j] = b[j]

\* a - b for big-endian numbers of one length, a >= b: byte i borrows when
\* the bytes below it are less in a than in b
BytesSub(a, b) ==
    [i \in 1..Len(a) |->
        LET borrow == IF \E k \in (i + 1)..Len(a) :
                            a[k] < b[k] /\ \A j \in (i + 1)..(k - 1) : a[j] = b[j]
                      THEN 1 ELSE 0
        IN (a[i] - b[i] - borrow + 256) % 256]

\* a scalar is valid when it is in 1..n-1
ValidScalar(a) == Len(a) = SECRET_KEY_SIZE /\ ~IsZero(a) /\ BytesLess(a, CURVE_ORDER)

\* Secp256k1::new(): a context with every capability
Secp256k1_new == [caps |-> "Full"]

\* SecretKey::from_slice(secp, data)
SecretKey_from_slice(secp, data) ==
    IF ValidScalar(data) THEN LibOk(data) ELSE LibErr("InvalidSecretKey")

\* Message::from_slice(data)
Message_from_slice(data) ==
    IF Len(data) = MESSAGE_SIZE THEN LibOk(data) ELSE LibErr("InvalidMessage")

\* Stand-in for the point k*G: x = n - k (injective on 1..n-1, onto 1..n-1,
\* and not the identity), y odd when k is odd.
PointOf(sk) == [x |-> BytesSub(CURVE_ORDER, sk), odd |-> sk[Len(sk)] % 2 = 1]

\* PublicKey::from_secret_key(secp, sk)
PublicKey_from_secret_key(secp, sk) ==
    IF secp.caps \notin {"Full", "SignOnly"} THEN LibErr("IncapableContext")
    ELSE LibOk(PointOf(sk))

\* PublicKey::serialize_vec(secp, compressed = true): parity prefix, then x
serialize_vec(pk) == <<IF pk.odd THEN 3 ELSE 2>> \o pk.x

\* PublicKey::from_slice(secp, data), compressed encoding: 33 bytes, prefix
\* 0x02 or 0x03, x on the curve (in the stand-in group: x in 1..n-1).  The
\* 65-byte uncompressed encoding is not among the keys drawn here.
PublicKey_from_slice(secp, data) ==
    IF /\ Len(data) = COMPRESSED_PUBLIC_KEY_SIZE
       /\ data[1] \in {2, 3}
       /\ ValidScalar(SubSeq(data, 2, Len(data)))
    THEN LibOk([x |-> SubSeq(data, 2, Len(data)), odd |-> data[1] = 3])
    ELSE LibErr("InvalidPublicKey")

\* Signature::from_compact(secp, data): 64 bytes, r and s below n
Signature_from_compact(secp, data) ==
    IF /\ Len(data) = COMPACT_SIGNATURE_SIZE
       /\ BytesLess(SubSeq(data, 1, SECRET_KEY_SIZE), CURVE_ORDER)
       /\ BytesLess(SubSeq(data, SECRET_KEY_SIZE + 1, Len(data)), CURVE_ORDER)
    THEN LibOk(data) ELSE LibErr("InvalidSignature")

\* the message digest as a scalar: reduced modulo n
ScalarOfMessage(msg) == IF BytesLess(msg, CURVE_ORDER) THEN msg ELSE BytesSub(msg, CURVE_ORDER)

\* Stand-in for the one signature (r, s) the deterministic signer produces for
\* a digest under the key with public point pk: r is bound to the point, s to
\* the digest and the point's parity.
SignatureFor(msg, pk) ==
    pk.x \o (IF pk.odd /\ ~IsZero(ScalarOfMessage(msg))
             THEN BytesSub(CURVE_ORDER, ScalarOfMessage(msg))
             ELSE ScalarOfMessage(msg))

\* Secp256k1::sign(msg, sk)
Secp256k1_sign(secp, msg, sk) ==
    IF secp.caps \notin {"Full", "SignOnly"} THEN LibErr("IncapableContext")
    ELSE LibOk(SignatureFor(msg, PointOf(sk)))

\* Signature::serialize_compact(secp)
serialize_compact(sig) == sig

\* Secp256k1::verify(msg, sig, pk)
Secp256k1_verify(secp, msg, sig, pk) ==
    IF secp.caps \notin {"Full", "VerifyOnly"} THEN LibErr("IncapableContext")
    ELSE IF sig = SignatureFor(msg, pk) THEN LibOk(<<>>)
    ELSE LibErr("IncorrectSignature")

(***************************************************************************)
(* Secp256k1Algorithm                                                      *)
(***************************************************************************)
Secp256k1Algorithm_new == [context |-> Secp256k1_new]

get_name(self) == "secp256k1"

get_algorithm_name(key) == "secp256k1"

\* compact.iter().map(|b| format!("{:02x}", b)).collect::<Vec<_>>().join("")
compact_to_hex(compact) ==
    [i \in 1..(2 * Len(compact)) |-> format_02x(compact[(i + 1) \div 2])[((i - 1) % 2) + 1]]

sign(self, message, key) ==
    LET hash == Sha256(message)
        sk == SecretKey_from_slice(self.context, as_slice(key))
    IN IF sk.kind = "Err" THEN SigningError(sk.msg)
       ELSE LET msg == Message_from_slice(hash)
            IN IF msg.kind = "Err" THEN SigningError(msg.msg)
               ELSE LET sig == Secp256k1_sign(self.context, msg.value, sk.value)
                    IN IF sig.kind = "Err" THEN SigningError(sig.msg)
                       ELSE Ok(compact_to_hex(serialize_compact(sig.value)))

\* mutant: IncorrectSignature is passed on as an error like the others
verify_mismatch_is_error(self, signature, message, key) ==
    LET hash == Sha256(message)
        msg == Message_from_slice(hash)
    IN IF msg.kind = "Err" THEN SigningError(msg.msg)
       ELSE LET bytes == hex_str_to_bytes(signature)
            IN IF bytes.kind # "Ok" THEN bytes
               ELSE LET sig == Signature_from_compact(self.context, bytes.value)
                    IN IF sig.kind = "Err" THEN SigningError(sig.msg)
                       ELSE LET pk == PublicKey_from_slice(self.context, as_slice(key))
                            IN IF pk.kind = "Err" THEN SigningError(pk.msg)
                               ELSE LET result == Secp256k1_verify(self.context, msg.value, sig.value, pk.value)
                                    IN IF result.kind = "Ok" THEN Ok(TRUE)
                                       ELSE SigningError(result.msg)

verify(self, signature, message, key) ==
    LET hash == Sha256(message)
        msg == Message_from_slice(hash)
    IN IF msg.kind = "Err" THEN SigningError(msg.msg)
       ELSE LET bytes == hex_str_to_bytes(signature)
            IN IF bytes.kind # "Ok" THEN bytes
               ELSE LET sig == Signature_from_compact(self.context, bytes.value)
                    IN IF sig.kind = "Err" THEN SigningError(sig.msg)
                       ELSE LET pk == PublicKey_from_slice(self.context, as_slice(key))
                            IN IF pk.kind = "Err" THEN SigningError(pk.msg)
                               ELSE LET result == Secp256k1_verify(self.context, msg.value, sig.value, pk.value)
                                    IN IF result.kind = "Ok" THEN Ok(TRUE)
                                       ELSE IF result.msg = "IncorrectSignature" THEN Ok(FALSE)
                                       ELSE SigningError(result.msg)

get_public_key(self, private_key) ==
    LET sk == SecretKey_from_slice(self.context, as_slice(private_key))
    IN IF sk.kind = "Err" THEN SigningError(sk.msg)
       ELSE LET pk == PublicKey_from_secret_key(self.context, sk.value)
            IN IF pk.kind = "Err" THEN SigningError(pk.msg)
               ELSE Secp256k1PublicKey_from_hex(bytes_to_hex_str(serialize_vec(pk.value)))

(***************************************************************************)
(* The fixed keys, messages and signature of the module's tests            *)
(***************************************************************************)
KEY1_PRIV_WIF == <<"5","J","B","3","B","6","o","5","c","b","t","Y","f","g","a","b","g","N","K","D","w","y","Y","j","s","5","8","j","g","U","w","C","L","D","o","p","N","u","S","5","Q","Q","d","a","G","v","1","E","H","t","2">>

KEY1_PRIV_HEX == <<"2","f","1","e","7","b","7","a","1","3","0","d","7","b","a","9","d","a","0","0","6","8","b","3","b","b","0","b","a","1","d","7","9","e","7","e","7","7","1","1","0","3","0","2","c","9","f","7","4","6","c","3","c","2","a","6","3","f","e","4","0","0","8","8">>

KEY1_PUB_HEX == <<"0","2","6","a","2","c","7","9","5","a","9","7","7","6","f","7","5","4","6","4","a","a","3","b","d","a","3","5","3","4","c","3","1","5","4","a","6","e","9","1","b","3","5","7","b","1","1","8","1","d","3","f","5","1","5","1","1","0","f","8","4","b","6","7","c","5">>

KEY2_PRIV_WIF == <<"5","J","S","H","1","D","M","k","i","8","k","D","Y","e","A","p","o","X","Y","D","J","6","D","c","A","y","f","9","J","p","Z","h","o","Q","Q","V","M","B","b","N","w","9","z","p","S","E","q","M","1","Q","B">>

KEY2_PRIV_HEX == <<"5","1","b","8","4","5","c","2","c","d","d","e","2","2","f","e","6","4","6","1","4","8","f","0","b","5","1","e","a","f","5","f","e","e","c","8","c","8","2","e","e","9","2","1","d","5","e","0","c","b","e","7","6","1","9","f","3","b","b","9","c","6","2","d">>

KEY2_PUB_HEX == <<"0","3","9","c","2","0","a","6","6","b","4","e","c","7","9","9","5","3","9","1","d","b","e","c","1","d","8","b","b","0","e","2","c","6","e","6","f","d","6","3","c","d","2","5","9","e","d","5","b","8","7","7","c","b","4","e","a","9","8","8","5","8","c","f","6","d">>

MSG2_KEY2_SIG == <<"d","5","8","9","c","7","b","1","f","a","5","f","8","a","4","c","5","a","3","8","9","d","e","8","0","a","e","9","5","8","2","c","2","f","7","f","2","a","5","e","2","1","b","a","b","5","4","5","0","b","6","7","0","2","1","4","e","5","b","1","c","1","2","3","5","e","9","e","b","8","1","0","2","f","d","0","c","a","6","9","0","a","8","b","4","2","e","2","c","4","0","6","a","6","8","2","b","d","5","7","f","6","d","a","f","6","e","1","4","2","e","5","f","a","4","b","2","c","2","6","e","f","4","0","a","4","9","0">>

\* String::from("test").into_bytes()
MSG1 == <<116, 101, 115, 116>>

\* String::from("test2").into_bytes()
MSG2 == <<116, 101, 115, 116, 50>>

(***************************************************************************)
(* The inputs drawn                                                        *)
(***************************************************************************)
\* the hex-codec inputs are every string of at most MaxLen characters
MaxLen == 3

\* the key and signature strings cut short by at most MaxCut characters
MaxCut == 2

\* the WIF strings of at most MaxOnes characters '1' (one zero byte each)
MaxOnes == 5

Repeat(ch, n) == [i \in 1..n |-> ch]

Prefix(s, n) == SubSeq(s, 1, n)

\* s with its character at 0-based index i replaced by ch
Replace(s, i, ch) == [s EXCEPT ![i + 1] = ch]

Upper(s) ==
    [i \in 1..Len(s) |->
        IF \E k \in 1..16 : LowerHex[k] = s[i]
        THEN UpperHex[CHOOSE k \in 1..16 : LowerHex[k] = s[i]] ELSE s[i]]

\* a lowercase hex letter, an uppercase hex letter and a character that is
\* no hex digit
CodecAlphabet == {"a", "F", "g"}

ShortStrings == UNION {[1..k -> CodecAlphabet] : k \in 0..MaxLen}

\* every single-character corruption of a key string (the tests put 'i')
Corrupted(s) == {Replace(s, i, "i") : i \in 0..(Len(s) - 1)}

ORDER_HEX == bytes_to_hex_str(CURVE_ORDER)

PrivHexInputs ==
    {Prefix(KEY1_PRIV_HEX, Len(KEY1_PRIV_HEX) - k) : k \in 0..MaxCut}
    \cup {KEY2_PRIV_HEX, Repeat("0", Len(KEY1_PRIV_HEX)), ORDER_HEX,
          Replace(KEY1_PRIV_HEX, 3, "i")}

WifInputs ==
    {Repeat("1", k) : k \in 0..MaxOnes}
    \cup {KEY1_PRIV_WIF, KEY2_PRIV_WIF,
          \* another checksum, another version byte, no base-58 character
          Replace(KEY1_PRIV_WIF, Len(KEY1_PRIV_WIF) - 1, "3"),
          Replace(KEY1_PRIV_WIF, 0, "4"),
          Replace(KEY1_PRIV_WIF, 1, "0")}

PubHexInputs ==
    {KEY1_PUB_HEX, KEY2_PUB_HEX,
     Replace(KEY1_PUB_HEX, 1, "5"),
     Prefix(KEY1_PUB_HEX, Len(KEY1_PUB_HEX) - 2),
     Replace(KEY1_PUB_HEX, 3, "i")}

Messages == {MSG1, MSG2}

SigInputs ==
    {Prefix(MSG2_KEY2_SIG, Len(MSG2_KEY2_SIG) - k) : k \in 0..MaxCut}
    \cup {Replace(MSG2_KEY2_SIG, 3, "i"), Repeat("f", Len(MSG2_KEY2_SIG))}

\* the codec on its own: every short string, every corruption of a key string
CodecPrivInputs ==
    ShortStrings \cup Corrupted(KEY1_PRIV_HEX) \cup {KEY1_PRIV_HEX, Upper(KEY1_PRIV_HEX)}

CodecPubInputs ==
    Corrupted(KEY1_PUB_HEX) \cup {KEY1_PUB_HEX, Upper(KEY2_PUB_HEX)}

\* the WIF decoder applied to each WIF string drawn (computed once)
WifDecoded == [s \in WifInputs |-> Secp256k1PrivateKey_from_wif(s)]

(***************************************************************************)
(* The calls a client makes.  `last` is the last call with its arguments   *)
(* and its outcome; `priv` and `pub` are the key objects the client holds  *)
(* (a key a call returned, once the client has bound it).  A panic aborts  *)
(* the client: nothing runs after it.                                      *)
(***************************************************************************)
Call(op, arg, message, key, result) ==
    [op |-> op, arg |-> arg, message |-> message, key |-> key, result |-> result]

Running == last.result.kind # "Panic"

Init ==
    /\ algorithm = Secp256k1Algorithm_new
    /\ priv = NoKey
    /\ pub = NoKey
    /\ last = Call("Secp256k1Algorithm::new", <<>>, <<>>, <<>>, Ok(<<>>))

CallPrivFromHex(s) ==
    /\ Running
    /\ last' = Call("Secp256k1PrivateKey::from_hex", s, <<>>, <<>>, Secp256k1PrivateKey_from_hex(s))
    /\ UNCHANGED <<algorithm, priv, pub>>

CallPrivFromWif(s) ==
    /\ Running
    /\ last' = Call("Secp256k1PrivateKey::from_wif", s, <<>>, <<>>, WifDecoded[s])
    /\ UNCHANGED <<algorithm, priv, pub>>

CallPubFromHex(s) ==
    /\ Running
    /\ last' = Call("Secp256k1PublicKey::from_hex", s, <<>>, <<>>, Secp256k1PublicKey_from_hex(s))
    /\ UNCHANGED <<algorithm, priv, pub>>

\* let priv_key = Secp256k1PrivateKey::from_hex(..).unwrap(), or from_wif
BindPriv ==
    /\ last.op \in {"Secp256k1PrivateKey::from_hex", "Secp256k1PrivateKey::from_wif"}
    /\ last.result.kind = "Ok"
    /\ priv' = Key(last.result.value)
    /\ UNCHANGED <<algorithm, pub, last>>

\* let pub_key = Secp256k1PublicKey::from_hex(..).unwrap(), or get_public_key
BindPub ==
    /\ last.op \in {"Secp256k1PublicKey::from_hex", "get_public_key"}
    /\ last.result.kind = "Ok"
    /\ pub' = Key(last.result.value)
    /\ UNCHANGED <<algorithm, priv, last>>

\* mutant: sign leaves the instance with a signing-only context
CallSign_narrows_context(message) ==
    /\ Running
    /\ priv.live
    /\ last' = Call("sign", <<>>, message, priv.private, sign(algorithm, message, priv))
    /\ algorithm' = [context |-> [caps |-> "SignOnly"]]
    /\ UNCHANGED <<priv, pub>>

\* fn sign(&self, message: &[u8], key: &PrivateKey): both are shared borrows
CallSign(message) ==
    /\ Running
    /\ priv.live
    /\ last' = Call("sign", <<>>, message, priv.private, sign(algorithm, message, priv))
    /\ UNCHANGED <<algorithm, priv, pub>>

\* fn verify(&self, signature: &str, message: &[u8], key: &PublicKey)
CallVerify(signature, message) ==
    /\ Running
    /\ pub.live
    /\ last' = Call("verify", signature, message, pub.private,
                    verify(algorithm, signature, message, pub))
    /\ UNCHANGED <<algorithm, priv, pub>>

\* fn get_public_key(&self, private_key: &PrivateKey)
CallGetPublicKey ==
    /\ Running
    /\ priv.live
    /\ last' = Call("get_public_key", <<>>, <<>>, priv.private, get_public_key(algorithm, priv))
    /\ UNCHANGED <<algorithm, priv, pub>>

\* a signature the client got from sign can be passed on to verify
Signatures ==
    SigInputs \cup (IF last.op = "sign" /\ last.result.kind = "Ok"
                    THEN {last.result.value} ELSE {})

Next ==
    \/ \E s \in PrivHexInputs : CallPrivFromHex(s)
    \/ \E s \in WifInputs : CallPrivFromWif(s)
    \/ \E s \in PubHexInputs : CallPubFromHex(s)
    \/ BindPriv
    \/ BindPub
    \/ \E m \in Messages : CallSign(m)
    \/ \E sig \in Signatures, m \in Messages : CallVerify(sig, m)
    \/ CallGetPublicKey

Spec == Init /\ [][Next]_vars

NextCodec ==
    \/ \E s \in CodecPrivInputs : CallPrivFromHex(s)
    \/ \E s \in CodecPubInputs : CallPubFromHex(s)

SpecCodec == Init /\ [][NextCodec]_vars

(***************************************************************************)
(* Properties                                                              *)
(***************************************************************************)
HexDigitSet ==
    {"0","1","2","3","4","5","6","7","8","9","a","b","c","d","e","f","A","B","C","D","E","F"}

LowerHexSet == {"0","1","2","3","4","5","6","7","8","9","a","b","c","d","e","f"}

AllIn(s, chars) == \A i \in 1..Len(s) : s[i] \in chars

FromHexOps == {"Secp256k1PrivateKey::from_hex", "Secp256k1PublicKey::from_hex"}

IsParseError(r) == r.kind = "Err" /\ r.err = "ParseError"

IsSigningError(r) == r.kind = "Err" /\ r.err = "SigningError"

\* C1: verify returns Ok(false) only when the signature hex decoded, the
\* curve library accepted the signature and the public key, and its
\* verification reported IncorrectSignature; a malformed signature hex gives
\* ParseError, a structurally invalid signature or invalid public key bytes
\* give SigningError, and none of these gives Ok(false) or Ok(true).
C1_VerifyFalseOnlyForMismatch ==
    last.op = "verify" =>
        LET wellformed == AllIn(last.arg, HexDigitSet) /\ Len(last.arg) % 2 = 0
            sig == Signature_from_compact(algorithm.context, hex_str_to_bytes(last.arg).value)
            pk == PublicKey_from_slice(algorithm.context, last.key)
        IN /\ ~wellformed => IsParseError(last.result)
           /\ (wellformed /\ (sig.kind = "Err" \/ pk.kind = "Err")) => IsSigningError(last.result)
           /\ (last.result.kind = "Ok" /\ last.result.value = FALSE) =>
                  /\ wellformed /\ sig.kind = "Ok" /\ pk.kind = "Ok"
                  /\ Secp256k1_verify(algorithm.context, Sha256(last.message), sig.value, pk.value)
                        = LibErr("IncorrectSignature")

\* C2: every call of from_hex, from_wif, sign, verify and get_public_key ends
\* with Ok or with Err(ParseError / SigningError); none aborts.
C2_EveryFailureIsAnErrorValue ==
    /\ last.result.kind \in {"Ok", "Err"}
    /\ last.result.kind = "Err" => last.result.err \in {"ParseError", "SigningError"}

\* C3: from_hex of a string with a non-hex character returns ParseError whose
\* position is the 0-based index of the first non-hex character; for a key
\* string with one character replaced, that is the replaced index.
C3_InvalidDigitPosition ==
    last.op \in FromHexOps =>
        /\ ~AllIn(last.arg, HexDigitSet) =>
              /\ IsParseError(last.result)
              /\ last.arg[last.result.pos + 1] \notin HexDigitSet
              /\ \A j \in 1..last.result.pos : last.arg[j] \in HexDigitSet
        /\ \A key \in {KEY1_PRIV_HEX, KEY1_PUB_HEX} : \A i \in 0..(Len(key) - 1) :
              last.arg = Replace(key, i, "i") =>
                  IsParseError(last.result) /\ last.result.pos = i

C3_Witness ==
    /\ last.op = "Secp256k1PublicKey::from_hex"
    /\ last.arg = Replace(KEY1_PUB_HEX, Len(KEY1_PUB_HEX) - 1, "i")
    /\ IsParseError(last.result)
    /\ last.result.pos = Len(KEY1_PUB_HEX) - 1

\* C4 as stated: decoding the encoding of a key's bytes gives the bytes back,
\* and encoding the decoding of any well-formed 64-character hex string gives
\* the string back.
C4_RoundTripAnyCase ==
    (last.op \in FromHexOps /\ last.result.kind = "Ok") =>
        /\ hex_str_to_bytes(bytes_to_hex_str(last.result.value)) = Ok(last.result.value)
        /\ (Len(last.arg) = 2 * SECRET_KEY_SIZE /\ AllIn(last.arg, HexDigitSet)) =>
              bytes_to_hex_str(last.result.value) = last.arg

\* C4 (amended): decoding the encoding of a key's bytes gives the bytes back,
\* and encoding the decoding of a well-formed even-length hex string (64
\* characters for a private key) with no uppercase digit gives the string
\* back.
C4_RoundTrip ==
    (last.op \in FromHexOps /\ last.result.kind = "Ok") =>
        /\ hex_str_to_bytes(bytes_to_hex_str(last.result.value)) = Ok(last.result.value)
        /\ AllIn(last.arg, LowerHexSet) => bytes_to_hex_str(last.result.value) = last.arg

C4_Witness ==
    /\ last.op = "Secp256k1PrivateKey::from_hex"
    /\ last.arg = KEY1_PRIV_HEX
    /\ last.result.kind = "Ok"
    /\ Len(last.result.value) = SECRET_KEY_SIZE
    /\ bytes_to_hex_str(last.result.value) = KEY1_PRIV_HEX

\* C5: decoding a string of 2n+1 hex digits succeeds with the n bytes of its
\* first 2n characters.
C5_OddLengthTruncates ==
    (last.op \in FromHexOps /\ AllIn(last.arg, HexDigitSet) /\ Len(last.arg) % 2 = 1) =>
        /\ last.result.kind = "Ok"
        /\ Len(last.result.value) = (Len(last.arg) - 1) \div 2
        /\ last.result = hex_str_to_bytes(Prefix(last.arg, Len(last.arg) - 1))

\* C6: from_wif of a string that base58-decodes to d returns the key
\* d[1 .. len(d)-5], whatever the version byte and the checksum; a string
\* that does not decode gives ParseError("Base58 decoding failed").
C6_WifStripsOuterBytes ==
    last.op = "Secp256k1PrivateKey::from_wif" =>
        LET d == from_base58(last.arg)
        IN IF d.kind = "Ok"
           THEN last.result = Ok(SubSeq(d.value, 2, Len(d.value) - 4))
           ELSE last.result = ParseError("Base58 decoding failed", -1)

\* C7 as stated: every private key a constructor returned holds 32 bytes and
\* every public key from from_hex or get_public_key holds 33 bytes.
C7_KeysHaveScalarSize ==
    /\ priv.live => Len(priv.private) = SECRET_KEY_SIZE
    /\ pub.live => Len(pub.private) = COMPRESSED_PUBLIC_KEY_SIZE

\* C7 (amended): a constructor fixes no size: from_hex returns len(s)/2 bytes
\* and from_wif len(d)-5 bytes; the size is enforced at use, where sign and
\* get_public_key succeed only on a 32-byte key, and every public key that
\* get_public_key returns holds 33 bytes.
C7_KeySizes ==
    /\ (last.op \in FromHexOps /\ last.result.kind = "Ok") =>
          2 * Len(last.result.value) = Len(last.arg)
    /\ (last.op = "Secp256k1PrivateKey::from_wif" /\ last.result.kind = "Ok") =>
          Len(last.result.value) = Len(from_base58(last.arg).value) - 5
    /\ (last.op \in {"sign", "get_public_key"} /\ last.result.kind = "Ok") =>
          Len(last.key) = SECRET_KEY_SIZE
    /\ (last.op = "get_public_key" /\ last.result.kind = "Ok") =>
          Len(last.result.value) = COMPRESSED_PUBLIC_KEY_SIZE

C7_Witness ==
    /\ last.op = "Secp256k1PrivateKey::from_wif"
    /\ last.arg = KEY1_PRIV_WIF
    /\ last.result.kind = "Ok"
    /\ Len(last.result.value) = SECRET_KEY_SIZE

\* the valid private keys among those the client can hold
ValidPrivKeys ==
    {r.value : r \in {x \in {Secp256k1PrivateKey_from_hex(s) : s \in PrivHexInputs}
                             \cup {WifDecoded[s] : s \in WifInputs} :
                         x.kind = "Ok" /\ ValidScalar(x.value)}}

PublicKeyOf == [k \in ValidPrivKeys |-> get_public_key(Secp256k1Algorithm_new, Key(k))]

SignatureOf == [m \in Messages, k \in ValidPrivKeys |-> sign(Secp256k1Algorithm_new, m, Key(k))]

\* C8: for a key with a valid scalar, sign returns a 128-character lowercase
\* hex signature, get_public_key returns the public key, and verify of that
\* signature and message against that public key returns Ok(true); verify of
\* a signature made for another key or message returns Ok(false).
C8_SignVerifyAgreement ==
    /\ (last.op = "sign" /\ ValidScalar(last.key)) =>
          LET p == get_public_key(algorithm, Key(last.key))
          IN /\ last.result.kind = "Ok"
             /\ Len(last.result.value) = 2 * COMPACT_SIGNATURE_SIZE
             /\ AllIn(last.result.value, LowerHexSet)
             /\ p.kind = "Ok"
             /\ verify(algorithm, last.result.value, last.message, Key(p.value)) = Ok(TRUE)
    /\ last.op = "verify" =>
          \A k1 \in ValidPrivKeys, k2 \in ValidPrivKeys, m \in Messages :
              (/\ PublicKeyOf[k1].kind = "Ok"
               /\ last.key = PublicKeyOf[k1].value
               /\ SignatureOf[m, k2].kind = "Ok"
               /\ last.arg = SignatureOf[m, k2].value) =>
                  /\ last.result.kind = "Ok"
                  /\ last.result.value = (k1 = k2 /\ m = last.message)

C8_Witness ==
    /\ last.op = "verify"
    /\ last.result.kind = "Ok"
    /\ last.result.value = TRUE
    /\ priv.live
    /\ ValidScalar(priv.private)
    /\ last.arg = SignatureOf[last.message, priv.private].value
    /\ last.key = PublicKeyOf[priv.private].value

C10_ScalarCheckedAtUse ==
    /\ (last.op = "Secp256k1PrivateKey::from_hex" /\ AllIn(last.arg, HexDigitSet)) =>
          last.result.kind = "Ok"
    /\ (last.op \in {"sign", "get_public_key"} /\ ~ValidScalar(last.key)) =>
          IsSigningError(last.result)

====
